---- MODULE Spec2Model ----
(***************************************************************************)
(* The parse_url crate (src/src/lib.rs, src/src/utils.rs) as a state       *)
(* machine.  A string is a sequence of one-character strings.  A state     *)
(* holds one input string, the call made on it and what the call produced. *)
(* Option<&str> is a record tagged "Some" (with the text) or "None"; a     *)
(* call that panics (Option::unwrap on None) produces the value Panic.     *)
(***************************************************************************)
EXTENDS Naturals, Sequences, FiniteSets

VARIABLES raw, comps, pc, call, ret

vars == <<raw, comps, pc, call, ret>>

\* ------------------------------------------------------------------ values

None == [tag |-> "None"]
Some(x) == [tag |-> "Some", val |-> x]
Panic == [tag |-> "Panic"]

is_some(o) == o.tag = "Some"
is_none(o) == o.tag = "None"

\* ------------------------------------------------------------ string parts

SchemeSep == <<":", "/", "/">>
Slash == <<"/">>
Question == <<"?">>
Hash == <<"#">>
Amp == <<"&">>
Equals == <<"=">>
Http == <<"h", "t", "t", "p">>
Https == <<"h", "t", "t", "p", "s">>
Ftp == <<"f", "t", "p">>
NoneText == <<"N", "o", "n", "e">>

\* char::is_whitespace, restricted to the whitespace characters the inputs use
is_whitespace(c) == c \in {" ", "\t", "\n"}

\* -------------------------------------------------------------- utils.rs

\* str::find: the index of the leftmost occurrence of pat in s, 0 if none
find(s, pat) ==
    LET n == Len(s)
        m == Len(pat)
        hits == {i \in 1..n : i + m - 1 <= n /\ SubSeq(s, i, i + m - 1) = pat}
    IN  IF hits = {} THEN 0 ELSE CHOOSE i \in hits : \A j \in hits : i <= j

\* url.splitn(2, separator).collect(): one piece, or two around the first match
splitn(url, separator) ==
    LET i == find(url, separator)
    IN  IF i = 0
        THEN <<url>>
        ELSE <<SubSeq(url, 1, i - 1), SubSeq(url, i + Len(separator), Len(url))>>

\* utils::truncate: v.get(index), with the text "None" standing for a missing piece
truncate(url, separator, index) ==
    LET v == splitn(url, separator)
        result == IF index + 1 <= Len(v) THEN v[index + 1] ELSE NoneText
    IN  IF result # <<>> /\ result # NoneText THEN Some(result) ELSE None

\* ---------------------------------------------------------------- lib.rs

get_protocol(url) ==
    LET protocol == truncate(url, SchemeSep, 0)
    IN  IF is_some(protocol)
        THEN IF protocol.val \in {Http, Https, Ftp} THEN protocol ELSE None
        ELSE None

get_host(url) ==
    LET result == truncate(url, SchemeSep, 1)
    IN  IF is_none(result)
        THEN truncate(url, Slash, 0)
        ELSE truncate(result.val, Slash, 0)

\* path.unwrap() on line 68 panics when the split on "?" gave None
get_path(url) ==
    LET result == truncate(url, SchemeSep, 1)
        path == IF is_none(result)
                THEN truncate(url, Slash, 1)
                ELSE truncate(result.val, Slash, 1)
    IN  IF is_some(path)
        THEN LET path2 == truncate(path.val, Question, 0)
             IN  IF is_none(path2) THEN Panic ELSE truncate(path2.val, Hash, 0)
        ELSE None

\* a get_search_string that forgets to strip the hash
get_search_string_nostrip(url) == truncate(url, Question, 1)

get_search_string(url) ==
    LET search == truncate(url, Question, 1)
    IN  IF ~is_none(search) THEN truncate(search.val, Hash, 0) ELSE None

get_fragment(url) == truncate(url, Hash, 1)

\* str::split: every piece around every occurrence of the separator
RECURSIVE split(_, _)
split(s, separator) ==
    LET i == find(s, separator)
    IN  IF i = 0
        THEN <<s>>
        ELSE <<SubSeq(s, 1, i - 1)>>
                 \o split(SubSeq(s, i + Len(separator), Len(s)), separator)

\* the for loop of get_params over the tokens, pushing (k, v) when param.len() == 2
RECURSIVE push_params(_)
push_params(params) ==
    IF params = <<>>
    THEN <<>>
    ELSE LET param == splitn(Head(params), Equals)
         IN  (IF Len(param) = 2 THEN <<(<<param[1], param[2]>>)>> ELSE <<>>)
                 \o push_params(Tail(params))

\* a get_params that splits each token on every "=" and so drops "k=v=w"
RECURSIVE push_params_splitall(_)
push_params_splitall(params) ==
    IF params = <<>>
    THEN <<>>
    ELSE LET param == split(Head(params), Equals)
         IN  (IF Len(param) = 2 THEN <<(<<param[1], param[2]>>)>> ELSE <<>>)
                 \o push_params_splitall(Tail(params))

get_params_splitall(url) ==
    LET search == get_search_string(url)
    IN  IF ~is_none(search) THEN push_params_splitall(split(search.val, Amp)) ELSE <<>>

get_params(url) ==
    LET search == get_search_string(url)
    IN  IF ~is_none(search) THEN push_params(split(search.val, Amp)) ELSE <<>>

RECURSIVE trim_start(_)
trim_start(s) ==
    IF s # <<>> /\ is_whitespace(Head(s)) THEN trim_start(Tail(s)) ELSE s

RECURSIVE trim_end(_)
trim_end(s) ==
    IF s # <<>> /\ is_whitespace(s[Len(s)])
    THEN trim_end(SubSeq(s, 1, Len(s) - 1))
    ELSE s

\* a trim that strips the leading whitespace only
trim_leading_only(s) == trim_start(s)

\* str::trim
trim(s) == trim_end(trim_start(s))

\* a parse_url whose fragment field is filled by the search extractor
parse_url_fragment_slip(url) ==
    LET t == trim(url)
    IN  IF get_path(t) = Panic
        THEN Panic
        ELSE [protocol |-> get_protocol(t),
              host     |-> get_host(t),
              path     |-> get_path(t),
              search   |-> get_search_string(t),
              fragment |-> get_search_string(t),
              params   |-> get_params(t)]

\* URLParts { .. }: the fields are evaluated in order, so the panic of get_path
\* ends the whole call
parse_url(url) ==
    LET t == trim(url)
    IN  IF get_path(t) = Panic
        THEN Panic
        ELSE [protocol |-> get_protocol(t),
              host     |-> get_host(t),
              path     |-> get_path(t),
              search   |-> get_search_string(t),
              fragment |-> get_fragment(t),
              params   |-> get_params(t)]

\* ------------------------------------------------------------------ inputs

MaxPieces == 3

Pieces ==
    {Http, <<"s">>, SchemeSep, Slash, Question, Hash, Amp, Equals, <<" ">>, NoneText}

\* every concatenation of at most n pieces
RECURSIVE Concats(_)
Concats(n) ==
    IF n = 0
    THEN {<<>>}
    ELSE {<<>>} \cup {p \o s : p \in Pieces, s \in Concats(n - 1)}

\* the parts of a URL assembled as scheme://host/path[?search][#fragment];
\* <<>> for an omitted search or fragment
Schemes == {Http, Https, Ftp}
Hosts == {<<"s">>, <<"s", ".", "s">>, NoneText}
Paths == {<<"s">>, <<"s", "/">>, <<"s", "/", "s", "/">>, NoneText}
Searches ==
    {<<>>,
     <<"s", "=", "s">>,
     <<"s", "=", "1", "&", "s", "=", "2">>,
     <<"s", "=", "1", "&", "f", "&", "s", "=", "2", "=", "3">>,
     NoneText}
Fragments == {<<>>, <<"s">>, NoneText}

NoComps ==
    [built |-> FALSE, scheme |-> <<>>, host |-> <<>>, path |-> <<>>,
     search |-> <<>>, fragment |-> <<>>]

Assembled ==
    [built : {TRUE}, scheme : Schemes, host : Hosts, path : Paths,
     search : Searches, fragment : Fragments]

Build(c) ==
    c.scheme \o SchemeSep \o c.host \o Slash \o c.path
        \o (IF c.search # <<>> THEN Question \o c.search ELSE <<>>)
        \o (IF c.fragment # <<>> THEN Hash \o c.fragment ELSE <<>>)

\* ----------------------------------------------------------- state machine

NoCall == [fn |-> "none", separator |-> <<>>, index |-> 0]
Called(f) == [fn |-> f, separator |-> <<>>, index |-> 0]

Init ==
    /\ \/ raw \in Concats(MaxPieces) /\ comps = NoComps
       \/ comps \in Assembled /\ raw = Build(comps)
    /\ pc = "idle"
    /\ call = NoCall
    /\ ret = None

Call_truncate ==
    /\ pc = "idle"
    /\ \E separator \in {SchemeSep, Slash, Question, Hash}, index \in {0, 1} :
          /\ call' = [fn |-> "truncate", separator |-> separator, index |-> index]
          /\ ret' = truncate(raw, separator, index)
    /\ pc' = "done"
    /\ UNCHANGED <<raw, comps>>

Call_get_protocol ==
    /\ pc = "idle"
    /\ call' = Called("get_protocol")
    /\ ret' = get_protocol(raw)
    /\ pc' = "done"
    /\ UNCHANGED <<raw, comps>>

Call_get_host ==
    /\ pc = "idle"
    /\ call' = Called("get_host")
    /\ ret' = get_host(raw)
    /\ pc' = "done"
    /\ UNCHANGED <<raw, comps>>

Call_get_path ==
    /\ pc = "idle"
    /\ call' = Called("get_path")
    /\ ret' = get_path(raw)
    /\ pc' = "done"
    /\ UNCHANGED <<raw, comps>>

Call_get_search_string ==
    /\ pc = "idle"
    /\ call' = Called("get_search_string")
    /\ ret' = get_search_string(raw)
    /\ pc' = "done"
    /\ UNCHANGED <<raw, comps>>

Call_get_fragment ==
    /\ pc = "idle"
    /\ call' = Called("get_fragment")
    /\ ret' = get_fragment(raw)
    /\ pc' = "done"
    /\ UNCHANGED <<raw, comps>>

Call_get_params ==
    /\ pc = "idle"
    /\ call' = Called("get_params")
    /\ ret' = get_params(raw)
    /\ pc' = "done"
    /\ UNCHANGED <<raw, comps>>

Call_parse_url ==
    /\ pc = "idle"
    /\ call' = Called("parse_url")
    /\ ret' = parse_url(raw)
    /\ pc' = "done"
    /\ UNCHANGED <<raw, comps>>

Next ==
    \/ Call_truncate
    \/ Call_get_protocol
    \/ Call_get_host
    \/ Call_get_path
    \/ Call_get_search_string
    \/ Call_get_fragment
    \/ Call_get_params
    \/ Call_parse_url

Spec == Init /\ [][Next]_vars

\* ------------------------------------------------- text the claims speak of

\* pat occurs in s at index i
Occurs(s, pat, i) ==
    /\ i + Len(pat) - 1 <= Len(s)
    /\ \A k \in 1..Len(pat) : s[i + k - 1] = pat[k]

Contains(s, pat) == \E i \in 1..Len(s) : Occurs(s, pat, i)

FirstOcc(s, pat) ==
    CHOOSE i \in 1..Len(s) :
        Occurs(s, pat, i) /\ \A j \in 1..(i - 1) : ~Occurs(s, pat, j)

\* the text before the first pat (all of s when pat does not occur)
TextBefore(s, pat) ==
    IF Contains(s, pat) THEN [k \in 1..(FirstOcc(s, pat) - 1) |-> s[k]] ELSE s

\* the text after the first pat, for an s that contains pat
TextAfter(s, pat) ==
    LET from == FirstOcc(s, pat) + Len(pat) - 1
    IN  [k \in 1..(Len(s) - from) |-> s[from + k]]

\* absent and the empty text are one state
Opt(text) == IF text = <<>> THEN None ELSE Some(text)

\* the input without its leading and trailing whitespace
Core(s) ==
    LET solid == {i \in 1..Len(s) : ~is_whitespace(s[i])}
    IN  IF solid = {}
        THEN <<>>
        ELSE LET lo == CHOOSE i \in solid : \A j \in solid : i <= j
                 hi == CHOOSE i \in solid : \A j \in solid : j <= i
             IN  [k \in 1..(hi - lo + 1) |-> s[lo + k - 1]]

Unpadded(s) == s = <<>> \/ (~is_whitespace(s[1]) /\ ~is_whitespace(s[Len(s)]))

\* the after-scheme text of an input
AfterScheme(s) == IF Contains(s, SchemeSep) THEN TextAfter(s, SchemeSep) ELSE s

Fn(f) == pc = "done" /\ call.fn = f

Extractors ==
    {"get_protocol", "get_host", "get_path", "get_search_string",
     "get_fragment", "get_params"}

\* ------------------------------------------------------------------ claims

\* C1: parse_url and each of the six extractors is total: every call returns
\* a result and none panics.  (get_params returns a sequence, which is never
\* the value Panic.)
C1_Total ==
    (pc = "done" /\ call.fn \in (Extractors \ {"get_params"}) \cup {"parse_url"})
        => ret # Panic

\* C2: for a URL assembled as scheme://host/path[?search][#fragment] from a
\* recognised scheme, a non-empty host free of / ? #, a non-empty path free
\* of ? #, and an optional non-empty search and fragment free of ? #,
\* parse_url returns exactly those parts, absent search and fragment when
\* omitted, and empty params when search is omitted.
C2_Precondition ==
    /\ comps.built
    /\ comps.scheme \in {Http, Https, Ftp}
    /\ comps.host # <<>> /\ comps.path # <<>>
    /\ \A d \in {Slash, Question, Hash} : ~Contains(comps.host, d)
    /\ \A d \in {Question, Hash} :
          ~Contains(comps.path, d) /\ ~Contains(comps.search, d)
              /\ ~Contains(comps.fragment, d)

C2_AssembledRoundTrip ==
    (Fn("parse_url") /\ C2_Precondition) =>
        /\ ret # Panic
        /\ ret.protocol = Some(comps.scheme)
        /\ ret.host = Some(comps.host)
        /\ ret.path = Some(comps.path)
        /\ ret.search = Opt(comps.search)
        /\ ret.fragment = Opt(comps.fragment)
        /\ (comps.search = <<>> => ret.params = <<>>)

\* C3: get_protocol(s) is present iff s contains "://" and the text before
\* its first occurrence is exactly http, https or ftp; when present it is
\* that text; it is absent whenever s contains no "://".
C3_ProtocolIffScheme ==
    Fn("get_protocol") =>
        LET recognised ==
                Contains(raw, SchemeSep)
                    /\ TextBefore(raw, SchemeSep) \in {Http, Https, Ftp}
        IN  ret = IF recognised THEN Some(TextBefore(raw, SchemeSep)) ELSE None

\* C4: truncate splits at the first occurrence of the separator only, selects
\* the piece before it for side 0 (the whole input without the separator) or
\* the piece after it for side 1 (no piece without the separator), and
\* returns the selected piece unchanged iff it exists and is not empty,
\* whatever its text.
C4_TruncatePiece ==
    Fn("truncate") =>
        ret = IF call.index = 0
              THEN Opt(TextBefore(raw, call.separator))
              ELSE IF Contains(raw, call.separator)
                   THEN Opt(TextAfter(raw, call.separator))
                   ELSE None

\* C5: with "://" in the input get_host is the text between the first "://"
\* and the first "/" after it (or the end), absent when that text is empty;
\* without "://" it is the text before the first "/" (absent if empty).
C5_HostText ==
    Fn("get_host") => ret = Opt(TextBefore(AfterScheme(raw), Slash))

\* C6: get_path takes the after-scheme text, keeps what follows its first
\* "/", cuts that at the first "?" and then at the first "#"; it is absent if
\* nothing follows the host or the cut text is empty, and else exactly that
\* text.
C6_PathText ==
    Fn("get_path") =>
        ret = IF Contains(AfterScheme(raw), Slash)
              THEN Opt(TextBefore(
                       TextBefore(TextAfter(AfterScheme(raw), Slash), Question),
                       Hash))
              ELSE None

\* the "&"-separated tokens of a search text, by the index each starts at
TokenStarts(t) == {1} \cup {i + 1 : i \in {j \in 1..Len(t) : t[j] = "&"}}

TokenAt(t, b) ==
    LET stops == {j \in b..Len(t) : t[j] = "&"} \cup {Len(t) + 1}
        stop == CHOOSE j \in stops : \A k \in stops : j <= k
    IN  [k \in 1..(stop - b) |-> t[b + k - 1]]

KeyedStarts(t) == {b \in TokenStarts(t) : Contains(TokenAt(t, b), Equals)}

\* the search text of an input: between the first "?" and the first "#" after it
SearchText(s) ==
    IF Contains(s, Question) THEN TextBefore(TextAfter(s, Question), Hash) ELSE <<>>

\* C7: get_params returns, in left-to-right order, one pair (text before the
\* first "=", text after the first "=") for each "&"-separated token of the
\* search string that contains "=", nothing for the other tokens, duplicate
\* keys kept, and the empty sequence when search is absent.
C7_ParamsPerKeyedToken ==
    Fn("get_params") =>
        LET t == SearchText(raw)
            keyed == KeyedStarts(t)
        IN  /\ Len(ret) = Cardinality(keyed)
            /\ \A b \in keyed :
                  LET n == Cardinality({c \in keyed : c <= b})
                      token == TokenAt(t, b)
                  IN  ret[n] = <<TextBefore(token, Equals), TextAfter(token, Equals)>>
            /\ (get_search_string(raw) = None => ret = <<>>)

\* a call of get_params that kept two pairs with one key, dropped a token
\* without "=" and split a token with two "=" at the first
C7_Witness ==
    /\ Fn("get_params")
    /\ Len(ret) = 2
    /\ ret[1][1] = ret[2][1]
    /\ Contains(ret[2][2], Equals)
    /\ Cardinality(TokenStarts(SearchText(raw))) = 3

\* whitespace that may surround an input
Pads == {<<>>, <<" ">>, <<"\t">>, <<"\n", " ">>}

\* C8: parse_url gives the same result for an input and for the input with
\* leading and trailing whitespace added or removed.
C8_PaddingInvariant ==
    Fn("parse_url") =>
        /\ \A l \in Pads, r \in Pads : parse_url(l \o raw \o r) = ret
        /\ parse_url(Core(raw)) = ret

\* a parse of an input with whitespace on both sides that found a host
C8_Witness ==
    /\ Fn("parse_url")
    /\ Len(raw) >= 3 /\ is_whitespace(raw[1]) /\ is_whitespace(raw[Len(raw)])
    /\ ret # Panic
    /\ is_some(ret.host)

FieldOf(f) ==
    CASE f = "get_protocol" -> "protocol"
      [] f = "get_host" -> "host"
      [] f = "get_path" -> "path"
      [] f = "get_search_string" -> "search"
      [] f = "get_fragment" -> "fragment"
      [] f = "get_params" -> "params"

PartOf(f, s) == f # <<>> /\ \E i \in 1..Len(s) : Occurs(s, f, i)

\* C10: whenever parse_url returns, every present optional field is a
\* non-empty contiguous substring of the trimmed input, host has no "/",
\* path has no "?" and no "#", and search has no "#".
C10_FieldsWithinInput ==
    (Fn("parse_url") /\ ret # Panic) =>
        /\ \A f \in {"protocol", "host", "path", "search", "fragment"} :
              is_some(ret[f]) => PartOf(ret[f].val, Core(raw))
        /\ (is_some(ret.host) => ~Contains(ret.host.val, Slash))
        /\ (is_some(ret.path) =>
                ~Contains(ret.path.val, Question) /\ ~Contains(ret.path.val, Hash))
        /\ (is_some(ret.search) => ~Contains(ret.search.val, Hash))

\* a parse that found all five optional fields
C10_Witness ==
    /\ Fn("parse_url")
    /\ ret # Panic
    /\ \A f \in {"protocol", "host", "path", "search", "fragment"} : is_some(ret[f])

====
